---- MODULE Spec2Model ----
(***************************************************************************)
(* Model of src/main.go: a one-shot page analyser.  main fetches a page,   *)
(* extracts the unique anchor hrefs (getURLs), launches one goroutine      *)
(* pingLink per link over one unbuffered channel c, and ranges over c      *)
(* collecting the links that could not be fetched into ia.                 *)
(*                                                                         *)
(* Go semantics modelled:                                                  *)
(*   - c is unbuffered: a send completes only together with a receive;     *)
(*   - close(c) of a closed channel panics; a send on a closed channel     *)
(*     panics (also a sender that was blocked when the close happened);    *)
(*   - a panic in any goroutine, log.Fatal, and the return of main end     *)
(*     the whole process: no goroutine takes a step afterwards;            *)
(*   - `for l := range c` ends only when c is closed;                      *)
(*   - http.Get uses http.DefaultClient, which has no timeout: a call may  *)
(*     return a response, return an error, or never return.                *)
(***************************************************************************)
EXTENDS Naturals, Sequences, FiniteSets

\* Longest list of anchors of the page that is explored.
MaxAnchors == 4

\* How many times the program is run on the same page and network (RerunSpec).
MaxRuns == 2

\* Longest list of heading elements of the page that is explored.
MaxTags == 3

\* The href values an anchor of the page may carry: an anchor without href
\* gives "" (s.Attr returns the empty string), a relative link, two absolute.
Hrefs == {"", "/about", "http://x.test/login", "http://other.test/"}

\* The hrefs http.Get can request; for any other (no scheme, no host) it
\* returns an error without touching the network.
HTTPLinks == {"http://x.test/login", "http://other.test/"}

\* The href values the link classifier is explored on: those above, a
\* fragment link, and an absolute link with a mixed-case sign-in path.
AllHrefs == Hrefs \cup {"#top", "http://other.test/SignIn"}

\* The values of os.Args[1] that are explored.
BaseURLs == {"", "http://x.test/", "http://other.test/"}

\* The keys of hs in getHeadings: "h" + strconv.Itoa(i) for i = 1..6.
HeadingTags == <<"h1", "h2", "h3", "h4", "h5", "h6">>

\* The keys of the map doctypes of versionReader, in the order of the
\* literal.  The markup of a page is modelled as the set of the keys whose
\* signature occurs in it: no signature is a substring of another, so every
\* set is the markup of some page.
Doctypes == <<"HTML 5", "HTML 4.01 Strict", "HTML 4.01 Transitional",
              "HTML 4.01 Frameset", "XHTML 1.0 Strict", "XHTML 1.0 Transitional",
              "XHTML 1.0 Frameset", "XHTML 1.1">>

\* What http.Get(url) of the page does: a 200 response that parses, a
\* transport error, a non-200 status, or a body goquery cannot load.
FetchOutcomes == {"ok", "transport error", "bad status", "parse error"}

\* What http.Get(link) of a probe does: a response, an error, or no return.
ProbeOutcomes(l) == IF l \in HTTPLinks THEN {"ok", "err", "hang"} ELSE {"err"}

ProbeAssignments(links) ==
    {p \in [links -> {"ok", "err", "hang"}] : \A l \in links : p[l] \in ProbeOutcomes(l)}

VARIABLES
    hrefs,    \* input: the href of every anchor of the page, in document order
    fetched,  \* input: what the GET of the page does (FetchOutcomes)
    probe,    \* input: what the GET of each unique link does (ProbeOutcomes)
    urls,     \* fresult.urls
    mainpc,   \* where main is: "parse", "fetch", "launch", "range", "done"
    i,        \* index of the next link of urls the launch loop starts
    task,     \* where goroutine pingLink(l, c) is, per link l
    closed,   \* whether channel c is closed
    ia,       \* the slice ia of main
    status,   \* "running", or how the process ended
    run,      \* number of the current run of the program on this input
    results,  \* the sets ia of the earlier runs that left the range loop
    baseURL,  \* input: os.Args[1]
    markup,   \* input: the doctypes whose signature occurs in doc.Html()
    tags,     \* input: the tag of every heading element, in document order
    version,  \* fresult.version
    headings, \* fresult.headings
    internals,\* the slice internals of main
    login,    \* the slice login of main
    versions, \* the versions the earlier runs detected
    cancelled \* whether the caller has asked to cancel the analysis

inputs == <<hrefs, fetched, probe, baseURL, markup, tags>>

analysis == <<version, headings, internals, login>>

session == <<run, results, versions, cancelled>>

vars == <<inputs, analysis, session, urls, mainpc, i, task, closed, ia, status>>

Range(s) == {s[k] : k \in DOMAIN s}

SeqsUpTo(S, n) == UNION {[1..k -> S] : k \in 0..n}

\* Contains that looks only at the url found last.
ContainsLast(ss, url) == ss # <<>> /\ ss[Len(ss)] = url

\* Contains returns true if slice already contains url
Contains(ss, url) == \E k \in DOMAIN ss : ss[k] = url

\* getURLs: every href in document order, appended unless already found
RECURSIVE getURLsFrom(_, _)
getURLsFrom(found, rest) ==
    IF rest = <<>> THEN found
    ELSE getURLsFrom(IF ~Contains(found, Head(rest)) THEN Append(found, Head(rest))
                     ELSE found,
                     Tail(rest))

getURLs(anchors) == getURLsFrom(<<>>, anchors)

\* The characters of the strings the model uses (a TLA+ string has no
\* characters of its own).
Chars(str) ==
    CASE str = "" -> <<>>
      [] str = "/about" -> <<"/", "a", "b", "o", "u", "t">>
      [] str = "#top" -> <<"#", "t", "o", "p">>
      [] str = "http://x.test/login" -> <<"h", "t", "t", "p", ":", "/", "/", "x", ".", "t", "e", "s", "t", "/", "l", "o", "g", "i", "n">>
      [] str = "http://other.test/" -> <<"h", "t", "t", "p", ":", "/", "/", "o", "t", "h", "e", "r", ".", "t", "e", "s", "t", "/">>
      [] str = "http://other.test/SignIn" -> <<"h", "t", "t", "p", ":", "/", "/", "o", "t", "h", "e", "r", ".", "t", "e", "s", "t", "/", "S", "i", "g", "n", "I", "n">>
      [] str = "http://x.test/" -> <<"h", "t", "t", "p", ":", "/", "/", "x", ".", "t", "e", "s", "t", "/">>
      [] str = "/" -> <<"/">>
      [] str = "#" -> <<"#">>
      [] str = "LOGIN" -> <<"L", "O", "G", "I", "N">>
      [] str = "SIGNIN" -> <<"S", "I", "G", "N", "I", "N">>

LowerCase == <<"a", "b", "c", "d", "e", "f", "g", "h", "i", "j", "k", "l", "m",
               "n", "o", "p", "q", "r", "s", "t", "u", "v", "w", "x", "y", "z">>

UpperCase == <<"A", "B", "C", "D", "E", "F", "G", "H", "I", "J", "K", "L", "M",
               "N", "O", "P", "Q", "R", "S", "T", "U", "V", "W", "X", "Y", "Z">>

\* strings.ToUpper, on characters
ToUpper(cs) ==
    [k \in DOMAIN cs |->
        IF \E n \in DOMAIN LowerCase : LowerCase[n] = cs[k]
        THEN UpperCase[CHOOSE n \in DOMAIN LowerCase : LowerCase[n] = cs[k]]
        ELSE cs[k]]

\* strings.HasPrefix, on characters
HasPrefix(cs, prefix) ==
    Len(cs) >= Len(prefix) /\ SubSeq(cs, 1, Len(prefix)) = prefix

\* strings.Contains, on characters
ContainsStr(cs, substr) ==
    \E k \in 1..(Len(cs) - Len(substr) + 1) : SubSeq(cs, k, k + Len(substr) - 1) = substr

\* Filter: the elements s of ss with f(s), in order; the predicate f is
\* given as a function on the elements of ss
Filter(ss, f) == SelectSeq(ss, LAMBDA s : f[s])

\* findinternals without the test for fragment links.
findinternalsNoFragment(base, s) ==
    \/ HasPrefix(Chars(s), Chars(base))
    \/ HasPrefix(Chars(s), Chars("/"))

\* findinternals of main, lines 62-64, for base URL base
findinternals(base, s) ==
    \/ HasPrefix(Chars(s), Chars(base))
    \/ HasPrefix(Chars(s), Chars("/"))
    \/ HasPrefix(Chars(s), Chars("#"))

\* containsLoginByURL without the strings.ToUpper.
containsLoginCaseSensitive(il) ==
    ContainsStr(Chars(il), Chars("LOGIN")) \/ ContainsStr(Chars(il), Chars("SIGNIN"))

\* containsLoginByURL of main, lines 69-72
containsLoginByURL(il) ==
    LET s == ToUpper(Chars(il))
    IN  ContainsStr(s, Chars("LOGIN")) \/ ContainsStr(s, Chars("SIGNIN"))

\* getHeadings, lines 146-148: the callback of Each runs on every element
\* with tag tag and assigns +1 to its entry of hs
RECURSIVE EachHeading(_, _, _)
EachHeading(hs, tag, elems) ==
    IF elems = <<>> THEN hs
    ELSE EachHeading(IF Head(elems) = tag THEN [hs EXCEPT ![tag] = 1] ELSE hs,
                     tag, Tail(elems))

\* getHeadings, lines 144-149: the loop over i = level..6
RECURSIVE getHeadingsFrom(_, _, _)
getHeadingsFrom(hs, level, elems) ==
    IF level > 6 THEN hs
    ELSE getHeadingsFrom(EachHeading(hs, HeadingTags[level], elems), level + 1, elems)

getHeadings(elems) ==
    getHeadingsFrom([h \in Range(HeadingTags) |-> 0], 1, elems)

\* versionReader, lines 193-198: the keys of doctypes are visited in order
\* order and the last one whose signature the markup contains is kept
RECURSIVE versionScan(_, _, _)
versionScan(found, order, html) ==
    IF order = <<>> THEN found
    ELSE versionScan(IF Head(order) \in html THEN Head(order) ELSE found,
                     Tail(order), html)

versionReader(order, html) == versionScan("", order, html)

\* The orders in which `range doctypes` may visit the keys.  Go leaves the
\* order of a map iteration unspecified; its runtime starts a small map at
\* a random position and wraps around.  Every key can come last in some
\* rotation, so the rotations give every result any order can give.
MapOrders(keys) ==
    {[k \in 1..Len(keys) |-> keys[((k + r - 1) % Len(keys)) + 1]] : r \in 0..(Len(keys) - 1)}

\* The goroutines of pingLink that have been started and have not ended.
InFlight == {l \in Hrefs : task[l] \in {"get", "send", "sleep"}}

\* The state main starts a run in.
Fresh ==
    /\ urls = <<>>
    /\ mainpc = "parse"
    /\ i = 1
    /\ task = [l \in Hrefs |-> "idle"]
    /\ closed = FALSE
    /\ ia = <<>>
    /\ status = "running"
    /\ version = ""
    /\ headings = [h \in Range(HeadingTags) |-> 0]
    /\ internals = <<>>
    /\ login = <<>>
    /\ cancelled = FALSE

\* The first run of the program.
FirstRun ==
    /\ Fresh
    /\ run = 1
    /\ results = {}
    /\ versions = {}

\* Inputs of the Health Checker: any page links, any fetch and probe
\* outcomes; one base URL, no headings, no doctype.
Init ==
    /\ hrefs \in SeqsUpTo(Hrefs, MaxAnchors)
    /\ fetched \in FetchOutcomes
    /\ probe \in ProbeAssignments(Range(getURLs(hrefs)))
    /\ baseURL = "http://x.test/"
    /\ markup = {}
    /\ tags = <<>>
    /\ FirstRun

\* parse that logs a failed fetch and goes on.
ParseNotFatal ==
    /\ status = "running"
    /\ mainpc = "parse"
    /\ mainpc' = "fetch"
    /\ UNCHANGED <<inputs, analysis, session, urls, i, task, closed, ia, status>>

\* main, lines 46-54: a missing url, a failed GET, a status other than 200
\* and a body goquery cannot load end the process with log.Fatal.
Parse ==
    /\ status = "running"
    /\ mainpc = "parse"
    /\ IF baseURL = ""
       THEN /\ status' = "fatal: missing url"
            /\ mainpc' = mainpc
       ELSE IF fetched # "ok"
       THEN /\ status' = "fatal: " \o fetched
            /\ mainpc' = mainpc
       ELSE /\ mainpc' = "fetch"
            /\ status' = status
    /\ UNCHANGED <<inputs, analysis, session, urls, i, task, closed, ia>>

\* main, lines 57-78: fetch(doc) fills fresult; Filter gives the internal
\* links and, of those, the login links
Analyse ==
    /\ status = "running"
    /\ mainpc = "fetch"
    /\ \E order \in MapOrders(Doctypes) : version' = versionReader(order, markup)
    /\ headings' = getHeadings(tags)
    /\ urls' = getURLs(hrefs)
    /\ internals' = Filter(urls', [s \in Range(urls') |-> findinternals(baseURL, s)])
    /\ login' = Filter(internals', [il \in Range(internals') |-> containsLoginByURL(il)])
    /\ mainpc' = "launch"
    /\ UNCHANGED <<inputs, session, i, task, closed, ia, status>>

\* main, lines 84-86: go pingLink(u, c) for the next u of fresult.urls
Launch ==
    /\ status = "running"
    /\ mainpc = "launch"
    /\ i <= Len(urls)
    /\ task' = [task EXCEPT ![urls[i]] = "get"]
    /\ i' = i + 1
    /\ UNCHANGED <<inputs, analysis, urls, mainpc, closed, ia, status, session>>

\* main, lines 88-89: the launch loop is over; main waits to receive from c
StartRange ==
    /\ status = "running"
    /\ mainpc = "launch"
    /\ i > Len(urls)
    /\ mainpc' = "range"
    /\ ia' = <<>>
    /\ UNCHANGED <<inputs, analysis, urls, i, task, closed, status, session>>

\* pingLink that appends a failed link to ia itself instead of sending it.
GetReturnsAppends(l) ==
    /\ status = "running"
    /\ task[l] = "get"
    /\ probe[l] # "hang"
    /\ task' = [task EXCEPT ![l] = IF probe[l] = "err" THEN "sent" ELSE "sleep"]
    /\ ia' = IF probe[l] = "err" THEN Append(ia, l) ELSE ia
    /\ UNCHANGED <<inputs, analysis, urls, mainpc, i, closed, status, session>>

\* pingLink that sends its link whatever http.Get returned.
GetReturnsSendsAlways(l) ==
    /\ status = "running"
    /\ task[l] = "get"
    /\ probe[l] # "hang"
    /\ task' = [task EXCEPT ![l] = "send"]
    /\ UNCHANGED <<inputs, analysis, urls, mainpc, i, closed, ia, status, session>>

\* pingLink, lines 108-109: http.Get(link) returns
GetReturns(l) ==
    /\ status = "running"
    /\ task[l] = "get"
    /\ probe[l] # "hang"
    /\ task' = [task EXCEPT ![l] = IF probe[l] = "err" THEN "send" ELSE "sleep"]
    /\ UNCHANGED <<inputs, analysis, urls, mainpc, i, closed, ia, status, session>>

\* pingLink line 111 with main lines 89-90: the send of l meets the receive
\* of the range loop; main appends l and pingLink returns
Receive(l) ==
    /\ status = "running"
    /\ mainpc = "range"
    /\ ~closed
    /\ task[l] = "send"
    /\ ia' = Append(ia, l)
    /\ task' = [task EXCEPT ![l] = "sent"]
    /\ UNCHANGED <<inputs, analysis, urls, mainpc, i, closed, status, session>>

\* pingLink line 111: the send finds c closed, or c is closed while the
\* sender is blocked: panic: send on closed channel
SendOnClosed(l) ==
    /\ status = "running"
    /\ task[l] = "send"
    /\ closed
    /\ task' = [task EXCEPT ![l] = "panicked"]
    /\ status' = "panic: send on closed channel"
    /\ UNCHANGED <<inputs, analysis, urls, mainpc, i, closed, ia, session>>

\* pingLink, lines 114-115: after the sleep, close(c); panics if c is closed
Close(l) ==
    /\ status = "running"
    /\ task[l] = "sleep"
    /\ IF closed
       THEN /\ task' = [task EXCEPT ![l] = "panicked"]
            /\ status' = "panic: close of closed channel"
            /\ closed' = closed
       ELSE /\ task' = [task EXCEPT ![l] = "closed"]
            /\ closed' = TRUE
            /\ status' = status
    /\ UNCHANGED <<inputs, analysis, urls, mainpc, i, ia, session>>

\* A range loop that also ends once it has received one value per link.
RangeEndsOnCount ==
    /\ status = "running"
    /\ mainpc = "range"
    /\ closed \/ Len(ia) = Len(urls)
    /\ mainpc' = "done"
    /\ UNCHANGED <<inputs, analysis, urls, i, task, closed, ia, status, session>>

\* main, line 89: the receive finds c closed and the range loop ends
RangeEnds ==
    /\ status = "running"
    /\ mainpc = "range"
    /\ closed
    /\ mainpc' = "done"
    /\ UNCHANGED <<inputs, analysis, urls, i, task, closed, ia, status, session>>

\* main, lines 92-94: main prints the count and returns; the process exits
Exit ==
    /\ status = "running"
    /\ mainpc = "done"
    /\ status' = "exited"
    /\ UNCHANGED <<inputs, analysis, urls, mainpc, i, task, closed, ia, session>>

\* main blocked at line 89 with every goroutine ended and c open: the Go
\* runtime may end the process (fatal error: all goroutines are asleep);
\* with idle network pollers left by net/http it may also not notice.
DeadlockFatal ==
    /\ status = "running"
    /\ mainpc = "range"
    /\ ~closed
    /\ \A l \in Range(urls) : task[l] = "sent"
    /\ status' = "fatal: all goroutines are asleep"
    /\ UNCHANGED <<inputs, analysis, urls, mainpc, i, task, closed, ia, session>>

\* The ended program is started again on the same page and network.
Rerun ==
    /\ status # "running"
    /\ run < MaxRuns
    /\ run' = run + 1
    /\ results' = IF mainpc = "done" THEN results \cup {Range(ia)} ELSE results
    /\ versions' = IF mainpc \notin {"parse", "fetch"} THEN versions \cup {version} ELSE versions
    /\ urls' = <<>>
    /\ mainpc' = "parse"
    /\ i' = 1
    /\ task' = [l \in Hrefs |-> "idle"]
    /\ closed' = FALSE
    /\ ia' = <<>>
    /\ status' = "running"
    /\ version' = ""
    /\ headings' = [h \in Range(HeadingTags) |-> 0]
    /\ internals' = <<>>
    /\ login' = <<>>
    /\ cancelled' = FALSE
    /\ UNCHANGED inputs

Next ==
    \/ Parse
    \/ Analyse
    \/ Launch
    \/ StartRange
    \/ \E l \in Hrefs : GetReturns(l)
    \/ \E l \in Hrefs : Receive(l)
    \/ \E l \in Hrefs : SendOnClosed(l)
    \/ \E l \in Hrefs : Close(l)
    \/ RangeEnds
    \/ Exit
    \/ DeadlockFatal

Spec == Init /\ [][Next]_vars

\* The Go scheduler runs every goroutine that can take a step.
Fairness ==
    /\ WF_vars(Parse)
    /\ WF_vars(Analyse)
    /\ WF_vars(Launch)
    /\ WF_vars(StartRange)
    /\ WF_vars(RangeEnds)
    /\ WF_vars(Exit)
    /\ \A l \in Hrefs : WF_vars(GetReturns(l))
    /\ \A l \in Hrefs : WF_vars(Receive(l))
    /\ \A l \in Hrefs : WF_vars(SendOnClosed(l))
    /\ \A l \in Hrefs : WF_vars(Close(l))

FairSpec == Spec /\ Fairness

NextRerun == Next \/ Rerun

RerunSpec == Init /\ [][NextRerun]_vars

\* Inputs of the link extraction and classification: any anchors, any base
\* URL; the page is fetched.
LinkInputs ==
    /\ hrefs \in SeqsUpTo(AllHrefs, MaxAnchors)
    /\ baseURL \in BaseURLs
    /\ fetched = "ok"
    /\ probe = [l \in Range(getURLs(hrefs)) |-> "err"]
    /\ markup = {}
    /\ tags = <<>>

\* Inputs of the heading count: any heading elements; the page is fetched.
HeadingInputs ==
    /\ tags \in SeqsUpTo(Range(HeadingTags), MaxTags)
    /\ hrefs = <<>>
    /\ baseURL = "http://x.test/"
    /\ fetched = "ok"
    /\ probe = <<>>
    /\ markup = {}

AnalysisInit == (LinkInputs \/ HeadingInputs) /\ FirstRun

\* main up to line 78: the sequential analysis of the page
AnalysisNext == Parse \/ Analyse

AnalysisSpec == AnalysisInit /\ [][AnalysisNext]_vars

\* Inputs of the version detection: any set of doctype signatures in the
\* markup; a page with one relative and one absolute link, so that the run
\* can end in every way.
VersionInit ==
    /\ markup \in SUBSET Range(Doctypes)
    /\ hrefs = <<"", "http://x.test/login">>
    /\ probe \in ProbeAssignments(Range(getURLs(hrefs)))
    /\ baseURL = "http://x.test/"
    /\ fetched = "ok"
    /\ tags = <<>>
    /\ FirstRun

\* The program run up to MaxRuns times on a page of any markup.
VersionSpec == VersionInit /\ [][NextRerun]_vars

\* The caller asks to cancel the analysis while probes are in flight (a
\* deadline passes).  main and pingLink take no context, channel or signal
\* through which they could learn of it: no step of the program reads
\* cancelled.
Cancel ==
    /\ status = "running"
    /\ ~cancelled
    /\ InFlight # {}
    /\ cancelled' = TRUE
    /\ UNCHANGED <<inputs, analysis, run, results, versions, urls, mainpc, i, task, closed, ia, status>>

NextCancel == Next \/ Cancel

CancelSpec == Init /\ [][NextCancel]_vars

(***************************************************************************)
(* Health Checker: vocabulary of the claims                                *)
(***************************************************************************)

\* The links of the run, as a set.
Links == Range(urls)

\* The links whose probe returned an error.
FailedLinks == {l \in DOMAIN probe : probe[l] = "err"}

\* The goroutines that have ended: after their send was received, after
\* their close, or in a panic.
Reported == {l \in Links : task[l] \in {"sent", "closed", "panicked"}}

\* The goroutines that have executed close(c), the panicking call included.
Closers == {l \in DOMAIN probe : task[l] = "closed" \/ (task[l] = "panicked" /\ probe[l] = "ok")}

\* How many values of ia are link l.
Delivered(l) == Cardinality({k \in DOMAIN ia : ia[k] = l})

\* http.Get has returned in every goroutine of a non-empty link set.
AllProbesReturned ==
    /\ mainpc \in {"range", "done"}
    /\ Links # {}
    /\ \A l \in Links : task[l] \notin {"idle", "get"}

\* main waits at the range loop for a value or a close that cannot come:
\* c is open and every goroutine has ended or waits for a GET forever.
MainStuck ==
    /\ status = "running"
    /\ mainpc = "range"
    /\ ~closed
    /\ \A l \in Links : task[l] = "sent" \/ (task[l] = "get" /\ probe[l] = "hang")

\* A probe task that will stay where it is for ever: inside a GET that does
\* not return, or at its send while main cannot receive any more.
ProbeLeaked(l) ==
    \/ task[l] = "get" /\ probe[l] = "hang"
    \/ task[l] = "send" /\ status # "running"

\* fetch(doc) and the classification of main have run.
Analysed == mainpc \notin {"parse", "fetch"}

\* The positions of a sequence that hold a value for the first time.
FirstOccurrences(seq) == {k \in DOMAIN seq : \A j \in 1..(k - 1) : seq[j] # seq[k]}

\* The n-th smallest member of a set of numbers.
NthOf(S, n) == CHOOSE x \in S : Cardinality({y \in S : y < x}) = n - 1

\* Read off the strings by hand: the hrefs of AllHrefs that start with the
\* base URL, with "/" or with "#".
ExpectedInternal(base) ==
    CASE base = "http://x.test/" -> {"/about", "#top", "http://x.test/login"}
      [] base = "http://other.test/" ->
            {"/about", "#top", "http://other.test/", "http://other.test/SignIn"}

\* Read off the strings by hand: the hrefs of AllHrefs that contain "login"
\* or "signin" in any mix of cases.
LoginLike == {"http://x.test/login", "http://other.test/SignIn"}

\* Whether sub holds elements of seq in the order they have in seq.
IsSubsequence(sub, seq) ==
    \A a, b \in DOMAIN sub : a < b =>
        \E c, d \in DOMAIN seq : c < d /\ seq[c] = sub[a] /\ seq[d] = sub[b]

\* The page is fetched, has links, and every probe returns an error.
AllProbesFail ==
    /\ fetched = "ok"
    /\ hrefs # <<>>
    /\ \A l \in DOMAIN probe : probe[l] = "err"

\* A ceiling on concurrent probes below the number of links a page can hold.
\* The source has no such parameter: any ceiling the claim could name is
\* exceeded by a page with one more link.
ProbeCeiling == Cardinality(Hrefs) - 1

(***************************************************************************)
(* Claims                                                                  *)
(***************************************************************************)

\* C1: the range loop of main ends (Done) only when every one of the N
\* probes has reported: completed = N.
C1_DoneOnlyWhenAllReported ==
    mainpc = "done" => Cardinality(Reported) = Len(urls)

\* C2: whenever main has left the range loop, the set of ia is exactly the
\* set of links whose probe failed.
C2_UnreachableIsFailedSet ==
    mainpc = "done" => Range(ia) = FailedLinks

\* C3: for N >= 1, once every probe has returned, main eventually leaves the
\* range loop (under fair scheduling).
C3_EventuallyDone ==
    AllProbesReturned ~> (mainpc = "done")

\* C4: with an empty link set main never waits at the range loop for a value
\* or a close that cannot come, and no probe is launched.
C4_EmptyNeverBlocks ==
    (fetched = "ok" /\ getURLs(hrefs) = <<>>) => (~MainStuck /\ InFlight = {})

\* C5: close(c) is executed at most once in a run, by at most one probe task.
C5_ClosedAtMostOnce ==
    /\ Cardinality(Closers) <= 1
    /\ status # "panic: close of closed channel"

\* C6: a probe task whose request errored never ends the run: it never
\* panics sending on the closed channel.
C6_FailingProbeNeverAborts ==
    /\ \A l \in FailedLinks : task[l] # "panicked"
    /\ status # "panic: send on closed channel"

\* C7: every run of the program on the same links and the same probe
\* outcomes that leaves the range loop has the same set ia.
C7_OrderIndependent ==
    mainpc = "done" => \A r \in results : r = Range(ia)

\* C8: one probe task per link of urls and none for any other href, and
\* every probe task that has ended has delivered exactly one value to main.
C8_OneOutcomePerProbe ==
    /\ \A l \in Hrefs \ Links : task[l] = "idle"
    /\ mainpc \in {"range", "done"} => \A l \in Links : task[l] # "idle"
    /\ \A l \in Reported : Delivered(l) = 1

\* C9: a probe whose GET never returns does not keep its link out of the
\* result: when main has left the range loop, that link is in ia.
C9_HangingProbeCounted ==
    mainpc = "done" => \A l \in DOMAIN probe : probe[l] = "hang" => l \in Range(ia)

\* C10: the number of probe tasks launched and not ended never exceeds the
\* ceiling.
C10_InFlightBounded ==
    Cardinality(InFlight) <= ProbeCeiling

\* C11: once the analysis is cancelled with probes in flight, main does not
\* stay blocked at the range loop for ever and no probe task stays running
\* or blocked for ever.
C11_CancelReturns ==
    cancelled => (~MainStuck /\ \A l \in Links : ~ProbeLeaked(l))

\* C12: the links getURLs returns hold no value twice and are the hrefs in
\* document order with every repetition after the first occurrence removed
\* (an empty href is kept like any other).
C12_LinksAreFirstOccurrences ==
    Analysed =>
        /\ \A a, b \in DOMAIN urls : a # b => urls[a] # urls[b]
        /\ Len(urls) = Cardinality(FirstOccurrences(hrefs))
        /\ \A k \in DOMAIN urls : urls[k] = hrefs[NthOf(FirstOccurrences(hrefs), k)]

\* C12 witness: a page with a repeated href and an empty href has been read.
C12_Witness ==
    /\ Analysed
    /\ Len(urls) >= 2
    /\ Len(hrefs) > Len(urls)
    /\ "" \in Range(urls)
    /\ hrefs[1] = hrefs[Len(hrefs)]

\* C13: internals are exactly the links that start with the base URL, "/"
\* or "#", in the order of links; the external count main prints is the
\* number of links that are not internal; no links give no internals.
C13_InternalExternalPartition ==
    Analysed =>
        /\ Range(internals) = Range(urls) \cap ExpectedInternal(baseURL)
        /\ Len(internals) = Cardinality(Range(internals))
        /\ IsSubsequence(internals, urls)
        /\ Len(urls) - Len(internals) = Cardinality(Range(urls) \ ExpectedInternal(baseURL))
        /\ urls = <<>> => internals = <<>>

\* C13 witness: a page with a fragment link, a link under the base URL and
\* two external links has been classified.
C13_Witness ==
    /\ Analysed
    /\ baseURL = "http://other.test/"
    /\ internals = <<"#top", "http://other.test/SignIn">>
    /\ Len(urls) - Len(internals) = 2

\* C14: login is exactly the internal links that contain "login" or "signin"
\* in any mix of cases, so no external link is in it; the scenario of the
\* specification gives its one login link.
C14_LoginCandidates ==
    Analysed =>
        /\ Range(login) = Range(internals) \cap LoginLike
        /\ Len(login) = Cardinality(Range(login))
        /\ Range(login) \cap (Range(urls) \ ExpectedInternal(baseURL)) = {}
        /\ (baseURL = "http://x.test/"
             /\ hrefs = <<"http://x.test/login", "/about", "http://other.test/">>)
           => (internals = <<"http://x.test/login", "/about">>
               /\ login = <<"http://x.test/login">>)

\* C14 witness: with an internal login link and an external sign-in link
\* only the internal one is a login candidate.
C14_Witness ==
    /\ Analysed
    /\ baseURL = "http://x.test/"
    /\ "http://other.test/SignIn" \in Range(urls)
    /\ "/about" \in Range(internals)
    /\ login = <<"http://x.test/login">>

\* C15: headings has exactly the keys h1..h6 and each value is the number
\* of elements of that level in the document.
C15_HeadingsAreCounts ==
    Analysed =>
        /\ DOMAIN headings = {"h1", "h2", "h3", "h4", "h5", "h6"}
        /\ \A h \in DOMAIN headings :
              headings[h] = Cardinality({k \in DOMAIN tags : tags[k] = h})

\* C16: for the same markup the version detected is the same on every run,
\* also when the markup holds the signatures of several standards; it is a
\* standard whose signature the markup holds, and none when there is none.
C16_VersionDeterministic ==
    Analysed =>
        /\ \A v \in versions : v = version
        /\ markup # {} => version \in markup
        /\ markup = {} => version \notin Range(Doctypes)

\* C17: when the GET of the page fails, returns a status other than 200 or
\* its body cannot be loaded, main never gets past parse: nothing is
\* extracted or classified and no probe is started.
C17_FetchFailureIsFatal ==
    fetched # "ok" =>
        /\ mainpc = "parse"
        /\ status \in {"running", "fatal: " \o fetched}
        /\ urls = <<>> /\ internals = <<>> /\ login = <<>> /\ version = ""
        /\ \A l \in Hrefs : task[l] = "idle"
        /\ ia = <<>>

\* C17 witness: the process has ended on a failed fetch of a page with links.
C17_Witness ==
    /\ status = "fatal: bad status"
    /\ Len(hrefs) >= 2

\* C18: ia changes only by main appending the link it receives from c while
\* it ranges over c, one append per receive; no step of a probe task alone
\* (the return of its GET, its close, its panic) changes ia.
C18_OnlyAggregatorWritesIa ==
    [][ia' # ia =>
         \E l \in Hrefs : /\ mainpc = "range"
                          /\ task[l] = "send"
                          /\ task' = [task EXCEPT ![l] = "sent"]
                          /\ ia' = Append(ia, l)]_vars

\* C18 witness: main has received two links while another probe closed c.
C18_Witness ==
    /\ Len(ia) = 2
    /\ closed

\* C19: the range loop ends only after a successful probe has closed c; so
\* when every one of N >= 1 probes fails, main never leaves the loop, and it
\* does receive all N links (under fair scheduling).
C19_DoneNeedsSuccessfulProbe ==
    /\ [](mainpc = "done" => \E l \in Links : probe[l] = "ok" /\ task[l] = "closed")
    /\ [](AllProbesFail => mainpc # "done")
    /\ (AllProbesFail => <>(Len(ia) = Len(urls) /\ Range(ia) = Range(getURLs(hrefs))))

\* C19 witness: every probe of a page with several links failed, main has
\* received them all and waits at the range loop.
C19_Witness ==
    /\ AllProbesFail
    /\ MainStuck
    /\ Len(urls) >= 2
    /\ Range(ia) = Links

\* C20: in every state ia holds only links whose probe failed, each at most
\* once.
C20_IaOnlyFailedOnce ==
    /\ \A k \in DOMAIN ia : probe[ia[k]] = "err"
    /\ \A a, b \in DOMAIN ia : a # b => ia[a] # ia[b]

\* C20 witness: the run crashed after main had received failed links, with
\* a successful probe among the links.
C20_Witness ==
    /\ Len(ia) >= 2
    /\ status = "panic: close of closed channel"

====
